---- MODULE Spec2Model ----
(***************************************************************************)
(* A model of tapestry's command layer (src/src/command.rs) and of the     *)
(* manifest query decoder (src/src/query.rs).                              *)
(*                                                                         *)
(* Three specifications share the variables:                               *)
(*   Spec        the render / status / summary / coverage commands run     *)
(*               one after another over one manifest and one output tree;  *)
(*   SpecCov     coverage() alone, over manifests large enough for the     *)
(*               f32 arithmetic of the percentage to matter;               *)
(*   SpecDecode  Queries::decode over small TOML values.                   *)
(***************************************************************************)
EXTENDS Integers, Sequences, FiniteSets, TLC

VARIABLES
    metadata,   \* the Metadata read from tapestry.toml
    fs,         \* the output tree: path -> [exists, data]
    dirs,       \* whether the output directories have been ensured
    cmd,        \* the command that is running or has just returned
    args,       \* its argument (assert_no_changes / fail_under)
    pc,         \* "idle" | "query" | "test" | "return" | "done"
    qi,         \* position of `query` in metadata.queries
    ti,         \* position of `tt` in find_by_query(query.id)
    q_output,   \* query_output / q_output of the current iteration
    stats,      \* status(): HashMap<&Path, output::Status>
    calls,      \* the calls the running command has made, in order
    result,     \* Result<i32, Error> of the command
    stdout,     \* lines printed by the command
    clean,      \* a render returned 0 and the tree is untouched since
    toml,       \* Queries::decode: the toml Value being decoded
    res,        \* Queries::decode: the Vec built so far
    decoded     \* Queries::decode: its Result

vars == <<metadata, fs, dirs, cmd, args, pc, qi, ti, q_output, stats, calls,
          result, stdout, clean, toml, res, decoded>>

pipeVars == <<metadata, fs, dirs, cmd, args, pc, qi, ti, q_output, stats,
              calls, result, stdout, clean>>

decodeVars == <<toml, res, decoded>>

(***************************************************************************)
(* Bounds                                                                  *)
(***************************************************************************)
MaxQueries == 2

MaxTests == 2

MaxCovQueries == 100

MaxCovSmall == 12

MaxEntries == 2

OutputPaths == {"out/a.sql", "out/b.sql"}

(***************************************************************************)
(* Values                                                                  *)
(***************************************************************************)
None == [some |-> FALSE, val |-> <<>>]

Some(t) == [some |-> TRUE, val |-> t]

Ok(code) == [kind |-> "Ok", code |-> code, error |-> ""]

\* Err(e): the error of the call that failed.
ErrOf(op) == [kind |-> "Err", code |-> 0, error |-> op]

Pending == [kind |-> "Pending", code |-> 0, error |-> ""]

QueryId(i) == "q" \o ToString(i)

QueryTemplate(i) == "queries/q" \o ToString(i) \o ".sql.j2"

TestTemplatePath(i) == "tests/t" \o ToString(i) \o ".sql.j2"

NoFile == [exists |-> FALSE, data |-> <<>>]

File(data) == [exists |-> TRUE, data |-> data]

EmptyFs == [p \in OutputPaths |-> NoFile]

Call(op, arg, text, prep, ret) ==
    [op |-> op, arg |-> arg, text |-> text, prep |-> prep, ret |-> ret]

(***************************************************************************)
(* Collaborators of the command layer                                      *)
(***************************************************************************)
\* Metadata::validate: one mistake per test template whose query_id names no
\* query of the manifest.
Validate(md) ==
    LET ids == {md.queries[i].id : i \in DOMAIN md.queries}
        dangling == SelectSeq(md.test_templates, LAMBDA t : t.query_id \notin ids)
    IN  [i \in DOMAIN dangling |-> <<"InvalidQueryRef", dangling[i].path, dangling[i].query_id>>]

\* TestTemplates::find_by_query: the templates bound to the id, in index order.
FindByQuery(tts, id) == SelectSeq(tts, LAMBDA t : t.query_id = id)

\* Engine::render_query: the text of a query, a function of its id.
RenderQueryText(id) == <<"query", id>>

\* Engine::render_test: the text of a test, a function of the template and
\* of the prepared statement handed in.
RenderTestText(path, prep_stmt) ==
    <<"test", path>> \o (IF prep_stmt.some THEN <<"prep_stmt">> \o prep_stmt.val ELSE <<>>)

\* The formatter applied by output::write and output::status.
Format(formatter, text) == IF formatter.some THEN <<"formatted">> \o text ELSE text

\* output::write: the formatted text becomes the content of the path.
OutputWrite(f, path, formatter, text) ==
    [f EXCEPT ![path] = File(Format(formatter, text))]

\* output::status: New / Changed / Unchanged of the formatted text.
OutputStatus(f, path, formatter, text) ==
    IF ~f[path].exists THEN "New"
    ELSE IF f[path].data = Format(formatter, text) THEN "Unchanged"
    ELSE "Changed"

(***************************************************************************)
(* Manifests                                                               *)
(***************************************************************************)
Placeholders == {"PosArgs", "Variables"}

Formatters == {None, Some(<<"sqlformat">>)}

MkQueries(outs) ==
    [i \in DOMAIN outs |-> [id |-> QueryId(i), template |-> QueryTemplate(i), output |-> outs[i]]]

MkTests(ts) ==
    [i \in DOMAIN ts |->
        [path |-> TestTemplatePath(i), output |-> ts[i].output, query_id |-> ts[i].query_id]]

\* The commands treat every output path alike, so the first query of a
\* manifest is given the first path; every other output is free.
FirstPath == "out/a.sql"

QuerySeqs ==
    {outs \in UNION {[1..n -> OutputPaths] : n \in 0..MaxQueries} :
        outs = <<>> \/ outs[1] = FirstPath}

TestSeqs ==
    UNION {[1..n -> [output : OutputPaths, query_id : {QueryId(i) : i \in 1..MaxQueries}]]
              : n \in 0..MaxTests}

Manifest(f, p, qs, ts) ==
    [formatter |-> f, placeholder |-> p, queries |-> MkQueries(qs), test_templates |-> MkTests(ts)]

(***************************************************************************)
(* Shared pieces of the commands                                           *)
(***************************************************************************)
InvalidReport(mistakes) ==
    <<<<"Invalid manifest file", "tapestry.toml">>>> \o mistakes

CanStart == pc = "idle"

\* The state a command starts from, its manifest loaded: nothing called,
\* nothing printed.
Begin(c, a) ==
    /\ CanStart
    /\ cmd' = c
    /\ args' = a
    /\ qi' = 1
    /\ ti' = 1
    /\ q_output' = <<>>
    /\ stats' = [p \in {} |-> "New"]
    /\ UNCHANGED <<metadata, decodeVars>>

\* The mistakes branch shared by every command.
ReportMistakes ==
    /\ stdout' = InvalidReport(Validate(metadata))
    /\ result' = Ok(1)
    /\ pc' = "done"
    /\ calls' = <<>>

query == metadata.queries[qi]

tts == FindByQuery(metadata.test_templates, query.id)

\* A faulty tt: the bound test templates taken last to first.
ttReversed == tts[Len(tts) + 1 - ti]

tt == tts[ti]

\* A faulty PrepStmt: the query text is handed over whatever the placeholder.
PrepStmtAlways(placeholder, query_output) == Some(query_output)

\* let prep_stmt = match metadata.placeholder { ... }
PrepStmt(placeholder, query_output) ==
    IF placeholder = "PosArgs" THEN Some(query_output) ELSE None

\* Where the loops go after the query's own step.
AfterQuery ==
    IF tts # <<>> THEN pc' = "test" /\ ti' = 1 /\ qi' = qi
    ELSE /\ ti' = 1
         /\ qi' = qi + 1
         /\ pc' = IF qi + 1 <= Len(metadata.queries) THEN "query" ELSE "return"

\* Where the loops go after a test template's step.
AfterTest ==
    IF ti + 1 <= Len(tts) THEN pc' = "test" /\ ti' = ti + 1 /\ qi' = qi
    ELSE /\ ti' = 1
         /\ qi' = qi + 1
         /\ pc' = IF qi + 1 <= Len(metadata.queries) THEN "query" ELSE "return"

\* A faulty Abort: the error is swallowed and the command returns normally.
AbortSwallowed(failed) ==
    /\ calls' = calls \o failed
    /\ result' = Pending
    /\ pc' = "return"
    /\ UNCHANGED <<qi, ti>>

\* The ? operator: the command returns the error at once.
Abort(failed) ==
    /\ calls' = calls \o failed
    /\ result' = ErrOf(failed[Len(failed)].op)
    /\ pc' = "done"
    /\ UNCHANGED <<qi, ti>>


(***************************************************************************)
(* render()                                                                *)
(***************************************************************************)
NoArgs == [assert_no_changes |-> FALSE, fail_under |-> [some |-> FALSE, val |-> 0]]

EmptyStats == [p \in {} |-> "New"]

Render_Start ==
    /\ Begin("render", NoArgs)
    /\ clean' = FALSE
    /\ IF Validate(metadata) # <<>>
       THEN ReportMistakes /\ UNCHANGED <<fs, dirs>>
       ELSE /\ stdout' = <<>>
            /\ UNCHANGED fs
            /\ \/ \* output::ensure_output_dirs(..)? fails
                  /\ calls' = <<Call("ensure_output_dirs", "out", <<>>, None, "Err")>>
                  /\ result' = ErrOf("ensure_output_dirs")
                  /\ pc' = "done"
                  /\ UNCHANGED dirs
               \/ /\ calls' = <<Call("ensure_output_dirs", "out", <<>>, None, "Ok")>>
                  /\ dirs' = TRUE
                  /\ result' = Pending
                  /\ pc' = IF Len(metadata.queries) >= 1 THEN "query" ELSE "return"

Render_Query ==
    /\ cmd = "render" /\ pc = "query"
    /\ LET query_output == RenderQueryText(query.id) IN
       \/ \* engine.render_query(..)? fails
          /\ Abort(<<Call("render_query", query.id, <<>>, None, "Err")>>)
          /\ UNCHANGED <<fs, q_output>>
       \/ \* output::write(..)? fails
          /\ Abort(<<Call("render_query", query.id, query_output, None, "Ok"),
                     Call("write", query.output, query_output, None, "Err")>>)
          /\ UNCHANGED <<fs, q_output>>
       \/ /\ fs' = OutputWrite(fs, query.output, metadata.formatter, query_output)
          /\ calls' = calls \o
                <<Call("render_query", query.id, query_output, None, "Ok"),
                  Call("write", query.output, query_output, None, "Ok")>>
          /\ q_output' = query_output
          /\ AfterQuery
          /\ UNCHANGED result
    /\ UNCHANGED <<metadata, dirs, cmd, args, stats, stdout, clean, decodeVars>>

\* A faulty Render_Test: the query's text is written to the test's path.
Render_Test_WritesQueryText ==
    /\ cmd = "render" /\ pc = "test"
    /\ LET prep_stmt == PrepStmt(metadata.placeholder, q_output)
           test_output == RenderTestText(tt.path, prep_stmt) IN
       /\ fs' = OutputWrite(fs, tt.output, metadata.formatter, q_output)
       /\ calls' = calls \o
             <<Call("render_test", tt.path, test_output, prep_stmt, "Ok"),
               Call("write", tt.output, q_output, None, "Ok")>>
       /\ AfterTest
       /\ UNCHANGED result
    /\ UNCHANGED <<metadata, dirs, cmd, args, q_output, stats, stdout, clean, decodeVars>>

Render_Test ==
    /\ cmd = "render" /\ pc = "test"
    /\ LET prep_stmt == PrepStmt(metadata.placeholder, q_output)
           test_output == RenderTestText(tt.path, prep_stmt) IN
       \/ \* engine.render_test(..)? fails
          /\ Abort(<<Call("render_test", tt.path, <<>>, prep_stmt, "Err")>>)
          /\ UNCHANGED fs
       \/ \* output::write(..)? fails
          /\ Abort(<<Call("render_test", tt.path, test_output, prep_stmt, "Ok"),
                     Call("write", tt.output, test_output, None, "Err")>>)
          /\ UNCHANGED fs
       \/ /\ fs' = OutputWrite(fs, tt.output, metadata.formatter, test_output)
          /\ calls' = calls \o
                <<Call("render_test", tt.path, test_output, prep_stmt, "Ok"),
                  Call("write", tt.output, test_output, None, "Ok")>>
          /\ AfterTest
          /\ UNCHANGED result
    /\ UNCHANGED <<metadata, dirs, cmd, args, q_output, stats, stdout, clean, decodeVars>>

Render_Return ==
    /\ cmd = "render" /\ pc = "return"
    /\ result' = Ok(0)
    /\ pc' = "done"
    /\ clean' = TRUE
    /\ UNCHANGED <<metadata, fs, dirs, cmd, args, qi, ti, q_output, stats, calls,
                   stdout, decodeVars>>

(***************************************************************************)
(* status(assert_no_changes)                                               *)
(***************************************************************************)
StatusArgs(assert_no_changes) ==
    [assert_no_changes |-> assert_no_changes, fail_under |-> [some |-> FALSE, val |-> 0]]

\* stats.insert(path, stat)
Insert(map, path, stat) ==
    [p \in (DOMAIN map) \cup {path} |-> IF p = path THEN stat ELSE map[p]]

\* A faulty Status_Start: the mistakes are not looked at.
Status_Start_Unvalidated(assert_no_changes) ==
    /\ Begin("status", StatusArgs(assert_no_changes))
    /\ UNCHANGED <<fs, dirs, clean>>
    /\ stdout' = <<>>
    /\ calls' = <<>>
    /\ result' = Pending
    /\ pc' = IF Len(metadata.queries) >= 1 THEN "query" ELSE "return"

Status_Start(assert_no_changes) ==
    /\ Begin("status", StatusArgs(assert_no_changes))
    /\ UNCHANGED <<fs, dirs, clean>>
    /\ IF Validate(metadata) # <<>>
       THEN ReportMistakes
       ELSE /\ stdout' = <<>>
            /\ calls' = <<>>
            /\ result' = Pending
            /\ pc' = IF Len(metadata.queries) >= 1 THEN "query" ELSE "return"

\* A faulty Status_Query: the classified text is written as well.
Status_Query_Writes ==
    /\ cmd = "status" /\ pc = "query"
    /\ LET q_out == RenderQueryText(query.id)
           q_stat == OutputStatus(fs, query.output, metadata.formatter, q_out) IN
       /\ calls' = calls \o
             <<Call("render_query", query.id, q_out, None, "Ok"),
               Call("status", query.output, q_out, None, q_stat)>>
       /\ stdout' = Append(stdout, <<"Query", q_stat, query.output>>)
       /\ stats' = Insert(stats, query.output, q_stat)
       /\ fs' = OutputWrite(fs, query.output, metadata.formatter, q_out)
       /\ q_output' = q_out
       /\ AfterQuery
       /\ UNCHANGED result
    /\ UNCHANGED <<metadata, dirs, cmd, args, clean, decodeVars>>

Status_Query ==
    /\ cmd = "status" /\ pc = "query"
    /\ LET q_out == RenderQueryText(query.id)
           q_stat == OutputStatus(fs, query.output, metadata.formatter, q_out) IN
       \/ \* engine.render_query(..)? fails
          /\ Abort(<<Call("render_query", query.id, <<>>, None, "Err")>>)
          /\ UNCHANGED <<q_output, stats, stdout>>
       \/ \* output::status(..)? fails
          /\ Abort(<<Call("render_query", query.id, q_out, None, "Ok"),
                     Call("status", query.output, q_out, None, "Err")>>)
          /\ UNCHANGED <<q_output, stats, stdout>>
       \/ /\ calls' = calls \o
                <<Call("render_query", query.id, q_out, None, "Ok"),
                  Call("status", query.output, q_out, None, q_stat)>>
          /\ stdout' = Append(stdout, <<"Query", q_stat, query.output>>)
          /\ stats' = Insert(stats, query.output, q_stat)
          /\ q_output' = q_out
          /\ AfterQuery
          /\ UNCHANGED result
    /\ UNCHANGED <<metadata, fs, dirs, cmd, args, clean, decodeVars>>

Status_Test ==
    /\ cmd = "status" /\ pc = "test"
    /\ LET prep_stmt == PrepStmt(metadata.placeholder, q_output)
           t_output == RenderTestText(tt.path, prep_stmt)
           t_stat == OutputStatus(fs, tt.output, metadata.formatter, t_output) IN
       \/ \* engine.render_test(..)? fails
          /\ Abort(<<Call("render_test", tt.path, <<>>, prep_stmt, "Err")>>)
          /\ UNCHANGED <<stats, stdout>>
       \/ \* output::status(..)? fails
          /\ Abort(<<Call("render_test", tt.path, t_output, prep_stmt, "Ok"),
                     Call("status", tt.output, t_output, None, "Err")>>)
          /\ UNCHANGED <<stats, stdout>>
       \/ /\ calls' = calls \o
                <<Call("render_test", tt.path, t_output, prep_stmt, "Ok"),
                  Call("status", tt.output, t_output, None, t_stat)>>
          /\ stdout' = Append(stdout, <<"Test", t_stat, tt.output>>)
          /\ stats' = Insert(stats, tt.output, t_stat)
          /\ AfterTest
          /\ UNCHANGED result
    /\ UNCHANGED <<metadata, fs, dirs, cmd, args, q_output, clean, decodeVars>>

\* let exit_code = if assert_no_changes { ... } else { 0 }
ExitCode(assert_no_changes, map) ==
    IF assert_no_changes
    THEN IF \A p \in DOMAIN map : map[p] = "Unchanged" THEN 0 ELSE 1
    ELSE 0

Status_Return ==
    /\ cmd = "status" /\ pc = "return"
    /\ result' = Ok(ExitCode(args.assert_no_changes, stats))
    /\ pc' = "done"
    /\ UNCHANGED <<metadata, fs, dirs, cmd, args, qi, ti, q_output, stats, calls,
                   stdout, clean, decodeVars>>

(***************************************************************************)
(* summary()                                                               *)
(***************************************************************************)
SummaryRow(q) ==
    LET ts == FindByQuery(metadata.test_templates, q.id)
    IN  <<q.id, q.output, q.template>> \o [i \in DOMAIN ts |-> ts[i].output]

Summary ==
    /\ Begin("summary", NoArgs)
    /\ UNCHANGED <<fs, dirs, clean>>
    /\ IF Validate(metadata) # <<>>
       THEN ReportMistakes
       ELSE /\ stdout' = <<<<"Id", "Query", "Template", "Tests">>>> \o
                  [i \in DOMAIN metadata.queries |-> SummaryRow(metadata.queries[i])]
            /\ calls' = <<>>
            /\ result' = Ok(0)
            /\ pc' = "done"

(***************************************************************************)
(* The user edits one generated file after a render (spec, section 8).     *)
(***************************************************************************)
EditFile(path) ==
    /\ pc = "idle"
    /\ clean
    /\ fs[path].exists
    /\ fs' = [fs EXCEPT ![path] = File(<<"edited by hand">>)]
    /\ clean' = FALSE
    /\ UNCHANGED <<metadata, dirs, cmd, args, pc, qi, ti, q_output, stats, calls,
                   result, stdout, decodeVars>>

\* The process of the command exits; the next command starts afresh, over
\* the same manifest and the same output tree.
Exit ==
    /\ pc = "done"
    /\ cmd' = "none"
    /\ args' = NoArgs
    /\ pc' = "idle"
    /\ qi' = 1
    /\ ti' = 1
    /\ q_output' = <<>>
    /\ stats' = EmptyStats
    /\ calls' = <<>>
    /\ result' = Pending
    /\ stdout' = <<>>
    /\ UNCHANGED <<metadata, fs, dirs, clean, decodeVars>>

(***************************************************************************)
(* f32 arithmetic of coverage(): a finite value is m * 2^e with m < 2^24.  *)
(***************************************************************************)
MantissaBits == 24

RECURSIVE Pow2(_)
Pow2(n) == IF n = 0 THEN 1 ELSE 2 * Pow2(n - 1)

\* Mantissas of normal values lie in F32Hidden .. F32Limit - 1.
F32Limit == Pow2(MantissaBits)

F32Hidden == Pow2(MantissaBits - 1)

F32Nan == [nan |-> TRUE, m |-> 0, e |-> 0]

F32(m, e) == [nan |-> FALSE, m |-> m, e |-> e]

\* num / den * 2^e (num, den > 0) rounded to the nearest f32, ties to even.
RECURSIVE F32Round(_, _, _)
F32Round(num, den, e) ==
    IF num \div den >= F32Limit THEN F32Round(num, den * 2, e + 1)
    ELSE IF num \div den < F32Hidden THEN F32Round(num * 2, den, e - 1)
    ELSE LET q == num \div den
             r == num % den
             up == 2 * r > den \/ (2 * r = den /\ q % 2 = 1)
             m == IF up THEN q + 1 ELSE q
         IN  IF m = F32Limit THEN F32(F32Hidden, e + 1) ELSE F32(m, e)

\* `n as f32` for a usize below 2^24: exact.
F32FromInt(n) == F32(n, 0)

\* a / b of two integers held as f32: 0/0 is NaN.
F32Div(a, b) ==
    IF b.m = 0 THEN F32Nan
    ELSE IF a.m = 0 THEN F32(0, 0)
    ELSE F32Round(a.m, b.m, a.e - b.e)

\* x * 100_f32
F32Mul100(x) ==
    IF x.nan THEN F32Nan
    ELSE IF x.m = 0 THEN F32(0, 0)
    ELSE F32Round(x.m * 100, 1, x.e)

\* The integer part of a finite f32 that is not negative.
F32Floor(x) == IF x.e >= 0 THEN x.m * Pow2(x.e) ELSE x.m \div Pow2(0 - x.e)

\* x < (threshold as f32): false for NaN; an integer t exceeds x iff it
\* exceeds the integer part of x.
F32Lt(x, threshold) == ~x.nan /\ F32Floor(x) < threshold

\* {pcent_cov:.02}: the percentage in hundredths, or NaN.
F32Print2(x) ==
    IF x.nan THEN "NaN"
    ELSE IF x.m = 0 THEN "0"
    ELSE LET den == Pow2(0 - x.e)
             q == (x.m * 100) \div den
             r == (x.m * 100) % den
             up == 2 * r > den \/ (2 * r = den /\ q % 2 = 1)
         IN  ToString(IF up THEN q + 1 ELSE q)

(***************************************************************************)
(* coverage(fail_under)                                                    *)
(***************************************************************************)
NoThreshold == [some |-> FALSE, val |-> 0]

Threshold(t) == [some |-> TRUE, val |-> t]

CoverageArgs(fail_under) == [assert_no_changes |-> FALSE, fail_under |-> fail_under]

CoverageRow(q) ==
    LET ts == FindByQuery(metadata.test_templates, q.id)
    IN  IF ts = <<>> THEN <<q.id, "No">> ELSE <<q.id, "Yes", ToString(Len(ts))>>

Untested ==
    SelectSeq(metadata.queries,
              LAMBDA q : FindByQuery(metadata.test_templates, q.id) = <<>>)

\* let pcent_cov = (num_tested as f32 / num_queries as f32) * 100_f32;
PcentCov(num_tested, num_queries) ==
    F32Mul100(F32Div(F32FromInt(num_tested), F32FromInt(num_queries)))

\* let exit_code = match fail_under { ... }
CoverageExitCode(fail_under, pcent_cov) ==
    IF fail_under.some
    THEN IF F32Lt(pcent_cov, fail_under.val) THEN 1 ELSE 0
    ELSE 0

Coverage(fail_under) ==
    /\ Begin("coverage", CoverageArgs(fail_under))
    /\ UNCHANGED <<fs, dirs, clean>>
    /\ IF Validate(metadata) # <<>>
       THEN ReportMistakes
       ELSE LET num_queries == Len(metadata.queries)
                num_untested == Len(Untested)
                num_tested == num_queries - num_untested
                pcent_cov == PcentCov(num_tested, num_queries)
            IN  /\ stdout' = <<<<"Query", "Has tests?">>>> \o
                        [i \in DOMAIN metadata.queries |-> CoverageRow(metadata.queries[i])] \o
                        <<<<"Total", F32Print2(pcent_cov),
                            ToString(num_tested), ToString(num_queries)>>>>
                /\ calls' = <<>>
                /\ result' = Ok(CoverageExitCode(fail_under, pcent_cov))
                /\ pc' = "done"


(***************************************************************************)
(* Query::decode and Queries::decode (src/src/query.rs)                    *)
(***************************************************************************)
Absent == "<absent>"

WrongType == "<wrong type>"

NoQuery == [id |-> "", template |-> "", conds |-> "", output |-> None]

Decoded(q) == [ok |-> TRUE, msg |-> "", q |-> q]

ParseError(msg) == [ok |-> FALSE, msg |-> msg, q |-> NoQuery]

\* decode_string / decode_pathbuf / decode_vecstr: a value of the wrong type
\* is a parse error.
DecodeField(v, what) == IF v = WrongType THEN ParseError("Invalid " \o what) ELSE Decoded(NoQuery)

QueryDecode(x) ==
    IF ~x.table THEN ParseError("Invalid 'query' entry")
    ELSE IF x.id = Absent THEN ParseError("Missing 'id' in 'query' entry")
    ELSE IF ~DecodeField(x.id, "string").ok THEN DecodeField(x.id, "string")
    ELSE IF x.template = Absent THEN ParseError("Missing 'template' in 'query' entry")
    ELSE IF ~DecodeField(x.template, "path").ok THEN DecodeField(x.template, "path")
    ELSE IF x.conds = Absent THEN ParseError("Missing 'conds' in 'query' entry")
    ELSE IF ~DecodeField(x.conds, "array of strings").ok
         THEN DecodeField(x.conds, "array of strings")
    ELSE IF x.option # Absent /\ ~DecodeField(x.option, "path").ok
         THEN DecodeField(x.option, "path")
    ELSE Decoded([id |-> x.id, template |-> x.template, conds |-> x.conds,
                  output |-> IF x.option = Absent THEN None ELSE Some(<<x.option>>)])

NotDecoding == [kind |-> "None", msg |-> "", inner |-> <<>>, cache |-> {}]

Decoding == [kind |-> "Pending", msg |-> "", inner |-> <<>>, cache |-> {}]

\* for x in xs { let q = Query::decode(.., x)?; res.push(Rc::new(q)); }
Decode_Entry ==
    /\ decoded.kind = "Pending"
    /\ toml.array
    /\ Len(res) < Len(toml.items)
    /\ LET d == QueryDecode(toml.items[Len(res) + 1]) IN
       \/ /\ d.ok
          /\ res' = Append(res, d.q)
          /\ UNCHANGED decoded
       \/ /\ ~d.ok
          /\ decoded' = [kind |-> "Err", msg |-> d.msg, inner |-> <<>>, cache |-> {}]
          /\ UNCHANGED res
    /\ UNCHANGED <<toml, pipeVars>>

\* None => return Err(..) / Ok(Self { inner: items, cache })
Decode_Return ==
    /\ decoded.kind = "Pending"
    /\ \/ /\ ~toml.array
          /\ decoded' = [kind |-> "Err", msg |-> "Invalid queries", inner |-> <<>>, cache |-> {}]
       \/ /\ toml.array
          /\ Len(res) = Len(toml.items)
          /\ decoded' = [kind |-> "Ok", msg |-> "", inner |-> res, cache |-> {}]
    /\ UNCHANGED <<toml, res, pipeVars>>

EntryIds == {Absent, WrongType, "q1", "q2"}

Entries ==
    [table : BOOLEAN, id : EntryIds, template : {Absent, WrongType, "q.sql.j2"},
     conds : {Absent, "[]"}, option : {Absent, "q.sql"}]

TomlValues ==
    {[array |-> FALSE, items |-> <<>>]} \cup
    {[array |-> TRUE, items |-> xs] : xs \in UNION {[1..n -> Entries] : n \in 0..MaxEntries}}

(***************************************************************************)
(* Specifications                                                          *)
(***************************************************************************)
IdlePipe ==
    /\ fs = EmptyFs
    /\ dirs = FALSE
    /\ cmd = "none"
    /\ args = NoArgs
    /\ pc = "idle"
    /\ qi = 1
    /\ ti = 1
    /\ q_output = <<>>
    /\ stats = EmptyStats
    /\ calls = <<>>
    /\ result = Pending
    /\ stdout = <<>>
    /\ clean = FALSE

NoDecode ==
    /\ toml = [array |-> FALSE, items |-> <<>>]
    /\ res = <<>>
    /\ decoded = NotDecoding

Init ==
    /\ \E f \in Formatters, p \in Placeholders, qs \in QuerySeqs, ts \in TestSeqs :
          metadata = Manifest(f, p, qs, ts)
    /\ IdlePipe
    /\ NoDecode

FailUnders == {NoThreshold, Threshold(40), Threshold(60)}

Next ==
    \/ Render_Start
    \/ Render_Query
    \/ Render_Test
    \/ Render_Return
    \/ \E assert_no_changes \in BOOLEAN : Status_Start(assert_no_changes)
    \/ Status_Query
    \/ Status_Test
    \/ Status_Return
    \/ Summary
    \/ \E fail_under \in FailUnders : Coverage(fail_under)
    \/ \E path \in OutputPaths : EditFile(path)
    \/ Exit

Spec == Init /\ [][Next]_vars

\* coverage() over manifests of n queries of which the first k have a test.
CovManifest(n, k) ==
    Manifest(None, "Variables", [i \in 1..n |-> "out/a.sql"],
             [i \in 1..k |-> [output |-> "out/b.sql", query_id |-> QueryId(i)]])

\* Every small size, and one size at which k / n runs over the whole percents.
CovSizes == (0..MaxCovSmall) \cup {MaxCovQueries}

InitCov ==
    /\ \E n \in CovSizes : \E k \in 0..n : metadata = CovManifest(n, k)
    /\ IdlePipe
    /\ NoDecode

CovFailUnders == {NoThreshold} \cup {Threshold(t) : t \in 0..100}

NextCov == (\E fail_under \in CovFailUnders : Coverage(fail_under)) \/ Exit

SpecCov == InitCov /\ [][NextCov]_vars

InitDecode ==
    /\ metadata = CovManifest(0, 0)
    /\ IdlePipe
    /\ toml \in TomlValues
    /\ res = <<>>
    /\ decoded = Decoding

NextDecode == Decode_Entry \/ Decode_Return

SpecDecode == InitDecode /\ [][NextDecode]_vars


(***************************************************************************)
(* Vocabulary of the properties                                            *)
(***************************************************************************)
Valid == Validate(metadata) = <<>>

Returned(c) == cmd = c /\ pc = "done" /\ result.kind = "Ok" /\ Valid

Failed(c) == cmd = c /\ pc = "done" /\ result.kind = "Err"

Classifications == SelectSeq(calls, LAMBDA c : c.op = "status" /\ c.ret # "Err")

AllClassifiedUnchanged ==
    \A i \in DOMAIN Classifications : Classifications[i].ret = "Unchanged"

\* The output paths of the manifest's queries and test templates, in order.
Outputs ==
    [i \in DOMAIN metadata.queries |-> metadata.queries[i].output] \o
    [i \in DOMAIN metadata.test_templates |-> metadata.test_templates[i].output]

DistinctOutputs ==
    \A i, j \in DOMAIN Outputs : i # j => Outputs[i] # Outputs[j]

IsPrefix(s, t) == Len(s) <= Len(t) /\ \A i \in DOMAIN s : s[i] = t[i]

Step(op, arg) == [op |-> op, arg |-> arg]

\* The calls made for the query and test items, without ensure_output_dirs.
Steps ==
    LET made == SelectSeq(calls, LAMBDA c : c.op # "ensure_output_dirs")
    IN  [i \in DOMAIN made |-> Step(made[i].op, made[i].arg)]

RECURSIVE ExpectedTests(_, _, _, _)
ExpectedTests(md, reconcile, id, j) ==
    IF j > Len(md.test_templates) THEN <<>>
    ELSE (IF md.test_templates[j].query_id = id
          THEN <<Step("render_test", md.test_templates[j].path),
                 Step(reconcile, md.test_templates[j].output)>>
          ELSE <<>>) \o ExpectedTests(md, reconcile, id, j + 1)

RECURSIVE ExpectedSteps(_, _, _)
ExpectedSteps(md, reconcile, i) ==
    IF i > Len(md.queries) THEN <<>>
    ELSE <<Step("render_query", md.queries[i].id), Step(reconcile, md.queries[i].output)>>
         \o ExpectedTests(md, reconcile, md.queries[i].id, 1)
         \o ExpectedSteps(md, reconcile, i + 1)

Engine(steps) == SelectSeq(steps, LAMBDA c : c.op \in {"render_query", "render_test"})

\* The position of the last render_query call before position i (0: none).
LastQueryCall(i) ==
    LET before == {j \in 1..(i - 1) : calls[j].op = "render_query"}
    IN  IF before = {} THEN 0 ELSE CHOOSE j \in before : \A k \in before : k <= j

\* The position of the last successful write to the path (0: none).
LastWrite(path) ==
    LET ws == {j \in DOMAIN calls :
                  calls[j].op = "write" /\ calls[j].ret = "Ok" /\ calls[j].arg = path}
    IN  IF ws = {} THEN 0 ELSE CHOOSE j \in ws : \A k \in ws : k <= j

(***************************************************************************)
(* C1: status(assert_no_changes = true) that returns normally on a valid   *)
(* manifest returns 0 if and only if every classification made during the *)
(* run was Unchanged.                                                      *)
(***************************************************************************)
C1_ExitZeroIffAllUnchanged ==
    (Returned("status") /\ args.assert_no_changes)
        => (result.code = 0 <=> AllClassifiedUnchanged)

(***************************************************************************)
(* C2 as stated: after a render that returned 0, with the tree untouched,  *)
(* status(true) classifies every item Unchanged and returns 0.             *)
(***************************************************************************)
C2_RenderThenStatusAllUnchanged ==
    (Returned("status") /\ clean /\ args.assert_no_changes)
        => (AllClassifiedUnchanged /\ result.code = 0)

(***************************************************************************)
(* C2 amended: the same, for manifests whose output paths are pairwise     *)
(* distinct.                                                               *)
(***************************************************************************)
C2_RenderThenStatusDistinctOutputs ==
    (Returned("status") /\ clean /\ args.assert_no_changes /\ DistinctOutputs)
        => (AllClassifiedUnchanged /\ result.code = 0)

C2_Witness ==
    /\ Returned("status") /\ clean /\ args.assert_no_changes /\ DistinctOutputs
    /\ Len(Classifications) = 2
    /\ \E i \in DOMAIN calls : calls[i].op = "render_test" /\ calls[i].prep.some
    /\ metadata.formatter.some

(***************************************************************************)
(* C3: in render and in status, every render_test call carries             *)
(* Some(text of the render_query call of the same iteration) under PosArgs *)
(* and None under Variables; never the text of another query, never the    *)
(* formatted text.                                                         *)
(***************************************************************************)
C3_PrepStmtIsQueryOutput ==
    \A i \in DOMAIN calls :
        calls[i].op = "render_test" =>
            LET j == LastQueryCall(i) IN
            /\ j # 0
            /\ calls[j].ret = "Ok"
            /\ metadata.placeholder = "PosArgs" => calls[i].prep = Some(calls[j].text)
            /\ metadata.placeholder = "Variables" => calls[i].prep = None
            /\ \A k \in DOMAIN calls :
                   (calls[k].op = "render_query" /\ calls[k].arg # calls[j].arg)
                       => calls[i].prep # Some(calls[k].text)
            /\ metadata.formatter.some
                   => calls[i].prep # Some(Format(metadata.formatter, calls[j].text))

C3_Witness ==
    /\ cmd \in {"render", "status"}
    /\ metadata.placeholder = "PosArgs"
    /\ metadata.formatter.some
    /\ \E i \in DOMAIN calls :
          /\ calls[i].op = "render_test"
          /\ calls[i].ret = "Ok"
          /\ calls[i].prep.some
          /\ Cardinality({j \in 1..i : calls[j].op = "render_query"}) = 2

(***************************************************************************)
(* C4: for n >= 1 queries of which k have a bound test, coverage returns 1 *)
(* if and only if fail_under is Some(t) and (k / n) * 100 < t.             *)
(***************************************************************************)
NumTested ==
    Cardinality({i \in DOMAIN metadata.queries :
                    \E j \in DOMAIN metadata.test_templates :
                        metadata.test_templates[j].query_id = metadata.queries[i].id})

C4_ExitCodeFollowsPercentage ==
    (Returned("coverage") /\ Len(metadata.queries) >= 1)
        => (result.code = 1 <=>
                (args.fail_under.some
                 /\ NumTested * 100 < args.fail_under.val * Len(metadata.queries)))

(***************************************************************************)
(* C5: Queries::decode never returns a collection holding two queries      *)
(* with the same id.                                                       *)
(***************************************************************************)
C5_DecodeRejectsDuplicateIds ==
    decoded.kind = "Ok"
        => \A i, j \in DOMAIN decoded.inner :
               i # j => decoded.inner[i].id # decoded.inner[j].id

(***************************************************************************)
(* C6: a failing render_query, render_test, write or classification is the *)
(* last call of the run, which ends with the error; what render wrote      *)
(* before it stays written.                                                *)
(***************************************************************************)
C6_FailFastNoRollback ==
    /\ \A i \in DOMAIN calls :
          calls[i].ret = "Err" =>
              (i = Len(calls) /\ pc = "done" /\ result = ErrOf(calls[i].op))
    /\ (pc = "done" /\ result.kind = "Ok") => \A i \in DOMAIN calls : calls[i].ret # "Err"
    /\ cmd = "render" =>
          \A path \in OutputPaths :
              LastWrite(path) # 0 =>
                  fs[path] = File(Format(metadata.formatter, calls[LastWrite(path)].text))

C6_Witness ==
    /\ Failed("render")
    /\ Len(calls) >= 4
    /\ calls[Len(calls)].op = "render_test"
    /\ \E path \in OutputPaths : LastWrite(path) # 0 /\ fs[path].exists

(***************************************************************************)
(* C7: no step of status changes the output tree or creates the output     *)
(* directories, and status calls neither write nor ensure_output_dirs.     *)
(***************************************************************************)
C7_StatusLeavesFilesystem ==
    /\ [](cmd = "status" =>
            \A i \in DOMAIN calls : calls[i].op \notin {"write", "ensure_output_dirs"})
    /\ [][cmd' = "status" => (fs' = fs /\ dirs' = dirs)]_vars

C7_Witness ==
    /\ Returned("status")
    /\ \E i, j \in DOMAIN Classifications :
          Classifications[i].ret = "New" /\ Classifications[j].ret = "Changed"

(***************************************************************************)
(* C8: with a manifest that has mistakes, every command returns 1 after    *)
(* printing every mistake, having rendered, written and classified         *)
(* nothing and created no directory.                                       *)
(***************************************************************************)
C8_MistakesStopEveryCommand ==
    ~Valid =>
        /\ calls = <<>>
        /\ stats = EmptyStats
        /\ fs = EmptyFs
        /\ dirs = FALSE
        /\ pc \in {"idle", "done"}
        /\ pc = "done" =>
              /\ cmd \in {"render", "status", "summary", "coverage"}
              /\ result = Ok(1)
              /\ Len(stdout) = 1 + Len(Validate(metadata))
              /\ \A i \in DOMAIN Validate(metadata) : stdout[i + 1] = Validate(metadata)[i]

C8_Witness ==
    /\ Len(Validate(metadata)) = 2
    /\ Len(metadata.queries) >= 1
    /\ cmd = "status"
    /\ pc = "done"

(***************************************************************************)
(* C9: with zero queries coverage reports a defined percentage, not NaN.   *)
(***************************************************************************)
C9_ZeroQueriesDefinedPercentage ==
    (Returned("coverage") /\ Len(metadata.queries) = 0)
        => stdout[Len(stdout)][2] # "NaN"

(***************************************************************************)
(* C10: render and status take their steps in one order: the queries in    *)
(* manifest order, each rendered and reconciled, then each of its test     *)
(* templates rendered and reconciled in index order, before the next       *)
(* query; both issue the same render_query / render_test calls.            *)
(***************************************************************************)
Reconcile == IF cmd = "render" THEN "write" ELSE "status"

C10_StepsInManifestOrder ==
    (cmd \in {"render", "status"} /\ Valid) =>
        /\ IsPrefix(Steps, ExpectedSteps(metadata, Reconcile, 1))
        /\ (pc = "done" /\ result.kind = "Ok")
              => /\ Steps = ExpectedSteps(metadata, Reconcile, 1)
                 /\ Engine(Steps) = Engine(ExpectedSteps(metadata, "write", 1))
                 /\ Engine(Steps) = Engine(ExpectedSteps(metadata, "status", 1))

C10_Witness ==
    /\ Returned("status")
    /\ Len(metadata.queries) = 2
    /\ Len(FindByQuery(metadata.test_templates, metadata.queries[1].id)) = 2
    /\ Len(Steps) = 8

====
